---- MODULE Spec2Model ----
(***************************************************************************)
(* A model of dumper.c of CCOS-disk-utils: the depth-first walker          *)
(* traverse_ccos_image over an in-image directory tree, and the three      *)
(* operations built on it: listing (print_image_info), extraction          *)
(* (dump_dir with dump_dir_tree_on_dir / dump_dir_tree_on_file) and        *)
(* replace-by-name (replace_file with find_filename / find_file_on_file).  *)
(*                                                                         *)
(* The image codec (ccos_image.h) and the string helpers (string_utils.h)  *)
(* are not part of dumper.c; they are modelled from their contract.        *)
(* Strings are sequences of one-character strings.  Allocation failures    *)
(* (calloc returning NULL) and the PATH_MAX / CCOS_MAX_FILE_NAME           *)
(* truncations of snprintf are not modelled: every modelled name and path  *)
(* is far shorter than either limit.                                       *)
(***************************************************************************)
EXTENDS Integers, Sequences, FiniteSets, TLC

\* ------------------------------------------------------------------ bounds
\* Number of directory entries of an image besides the root directory.
MaxEntries == 3
\* Number of undecodable places (malformed names, undecodable child lists,
\* undecodable data blocks) an image may hold.
MaxDefects == 1
\* Number of data blocks in a file's block chain.
MaxChain == 2
\* Byte capacity of one data block.
MaxCap == 2
\* Length of the replacement content read from the host file.
MaxContent == 3

\* ------------------------------------------------------- program constants
RESULT_OK == 1
RESULT_ERROR == 2
RESULT_BREAK == 3

\* The block the top-level operations start from (their superblock /
\* dir_inode argument).
superblock == 1

Entries == 2..(MaxEntries + 1)
Blocks == 1..(MaxEntries + 1)

\* ------------------------------------------------------------ string helpers
RECURSIVE IndexOf(_, _, _)
\* strchr: the first position >= k of character ch in s, 0 when there is none.
IndexOf(s, ch, k) ==
  IF k > Len(s) THEN 0
  ELSE IF s[k] = ch THEN k
  ELSE IndexOf(s, ch, k + 1)

RECURSIVE LastIndexOf(_, _, _)
\* strrchr: the last position <= k of character ch in s, 0 when there is none.
LastIndexOf(s, ch, k) ==
  IF k < 1 THEN 0
  ELSE IF s[k] = ch THEN k
  ELSE LastIndexOf(s, ch, k - 1)

replace_char_in_place(s, from, to) ==
  [k \in 1..Len(s) |-> IF s[k] = from THEN to ELSE s[k]]

\* snprintf(dst, PATH_MAX, "%s/%s", dirname, name)
JoinPath(dirname, name) == dirname \o <<"/">> \o name

\* ------------------------------------------------------------ the image
\* Raw names are CCOS short strings of the form basename~type~ (dumper.c's
\* own example: GenericSerialXON/XOFF~Printer~).  A malformed short string
\* has no type delimiter.
TypeSuffix == <<"~", "t", "~">>
NameSlash == <<"a", "/", "b">>
NameUnder == <<"a", "_", "b">>
NamePlain == <<"c">>

RawName(base, malformed) == IF malformed THEN base ELSE base \o TypeSuffix

RECURSIVE SortedSeq(_)
SortedSeq(S) ==
  IF S = {} THEN <<>>
  ELSE LET m == CHOOSE x \in S : \A y \in S : x <= y
       IN <<m>> \o SortedSeq(S \ {m})

Reverse(s) == [k \in 1..Len(s) |-> s[Len(s) + 1 - k]]

\* Tree shapes: every entry has one parent directory, which has a smaller
\* block identifier, so that the directory structure is a finite tree.
Shapes ==
  { s \in [kind : [Entries -> {"dir", "file"}], par : [Entries -> Blocks]] :
      \A b \in Entries :
        /\ s.par[b] < b
        /\ s.par[b] = superblock \/ s.kind[s.par[b]] = "dir" }

IsDirIn(s, b) == b = superblock \/ s.kind[b] = "dir"
DirsOf(s) == {b \in Blocks : IsDirIn(s, b)}

\* The ordered child list of directory d: the image's own order, either
\* ascending or descending by block identifier.
KidsOf(s, rev, d) ==
  LET asc == SortedSeq({b \in Entries : s.par[b] = d})
  IN IF rev THEN Reverse(asc) ELSE asc

\* The undecodable places of an image: <<"name", b>> when the short string
\* naming entry b is malformed, <<"dir", b>> when the child list of directory
\* b does not decode.  An image holds at most MaxDefects of them.
DefectsOf(s, Kinds) ==
  LET all == {d \in Kinds \X Blocks :
                \/ d[1] = "name" /\ d[2] \in Entries
                \/ d[1] = "dir" /\ IsDirIn(s, d[2])}
  IN {D \in SUBSET all : Cardinality(D) <= MaxDefects}

RECURSIVE Sum(_)
Sum(s) == IF s = <<>> THEN 0 ELSE Head(s) + Sum(Tail(s))

CapSeqs == UNION {[1..n -> 1..MaxCap] : n \in 0..MaxChain}

\* How a file is laid out: its logical size, the capacities of the data blocks
\* of its chain, and the undecodable places of the chain (0: the block list
\* itself, j: data block j).  The logical size may be anything up to one byte
\* beyond the greatest total capacity.
Layouts ==
  { [size |-> sz, caps |-> c, bad |-> bad] :
      sz \in 0..(MaxChain * MaxCap + 1), c \in CapSeqs,
      bad \in {B \in SUBSET (0..MaxChain) : Cardinality(B) <= MaxDefects} }

\* One block of one byte, all decodable.
PlainLayout == [size |-> 1, caps |-> <<1>>, bad |-> {}]

\* The stored bytes of file b: byte k of its chain is <<"old", b, k>>.
FileOf(b, lay) ==
  [size |-> lay.size, caps |-> lay.caps,
   bad |-> {j \in lay.bad : j <= Len(lay.caps)},
   bytes |-> [k \in 1..Sum(lay.caps) |-> <<"old", b, k>>]]

NoFile == [size |-> 0, caps |-> <<>>, bad |-> {}, bytes |-> <<>>]

ImagesOf(s, RootNames, DirNames, FileNames, Revs, Kinds, Lays) ==
  { [kind |-> [b \in Blocks |-> IF IsDirIn(s, b) THEN "dir" ELSE "file"],
     kids |-> [b \in Blocks |-> IF IsDirIn(s, b) THEN KidsOf(s, rev, b) ELSE <<>>],
     name |-> [b \in Blocks |->
                 IF b = superblock THEN root
                 ELSE RawName(nm[b], <<"name", b>> \in D)],
     baddirs |-> {b \in Blocks : <<"dir", b>> \in D},
     file |-> [b \in Blocks |-> IF IsDirIn(s, b) THEN NoFile ELSE FileOf(b, lay)]] :
    root \in RootNames,
    rev \in Revs,
    nm \in {f \in [Entries -> DirNames \cup FileNames] :
              \A b \in Entries :
                f[b] \in (IF IsDirIn(s, b) THEN DirNames ELSE FileNames)},
    D \in DefectsOf(s, Kinds),
    lay \in Lays }

Images(Shps, RootNames, DirNames, FileNames, Revs, Kinds, Lays) ==
  UNION {ImagesOf(s, RootNames, DirNames, FileNames, Revs, Kinds, Lays) : s \in Shps}

\* --------------------------------------------------------------- the codec
\* ccos_image.h, modelled from its contract.
ccos_is_dir(img, b) == img.kind[b] = "dir"

ccos_get_file_name(img, b) == img.name[b]

\* -1 when the child list of the block does not decode, else the list.
ccos_get_dir_contents(img, b) ==
  IF b \in img.baddirs \/ img.kind[b] # "dir"
  THEN [rc |-> -1, files |-> <<>>]
  ELSE [rc |-> 0, files |-> img.kids[b]]

\* Splits basename~type~ at its delimiters; -1 when there is none.
ccos_parse_file_name(raw) ==
  LET k == IndexOf(raw, "~", 1)
      e == IndexOf(raw, "~", k + 1)
  IN IF k = 0 THEN [rc |-> -1, basename |-> <<>>, type |-> <<>>]
     ELSE [rc |-> 0, basename |-> SubSeq(raw, 1, k - 1),
           type |-> SubSeq(raw, k + 1, (IF e = 0 THEN Len(raw) ELSE e - 1))]

\* The short string as a C string: its characters, delimiters included.
ccos_short_string_to_string(raw) == raw

ccos_get_file_size(img, b) == img.file[b].size

\* -1 when the block list of the file does not decode, else the chain: the
\* positions of its data blocks.
ccos_get_file_blocks(img, b) ==
  IF 0 \in img.file[b].bad
  THEN [rc |-> -1, blocks |-> <<>>]
  ELSE [rc |-> 0, blocks |-> [j \in 1..Len(img.file[b].caps) |-> j]]

\* -1 when data block j of file b does not decode, else its payload; the
\* payload's length is the block's capacity.
ccos_get_block_data(img, b, j) ==
  LET f == img.file[b]
      before == Sum(SubSeq(f.caps, 1, j - 1))
  IN IF j \in f.bad
     THEN [rc |-> -1, data |-> <<>>]
     ELSE [rc |-> 0, data |-> SubSeq(f.bytes, before + 1, before + f.caps[j])]

\* Overwrites the stored bytes of file b with the new content; -1, the image
\* untouched, when b is no file of the image or the content does not fit the
\* capacity of the chain.
ccos_replace_file(img, b, contents) ==
  LET f == IF b \in Blocks THEN img.file[b] ELSE NoFile
      n == Len(contents)
  IN IF b \notin Entries \/ img.kind[b] # "file" \/ n > Len(f.bytes)
     THEN [rc |-> -1, data |-> img]
     ELSE [rc |-> 0,
           data |-> [img EXCEPT
                       !["file"][b].size = n,
                       !["file"][b].bytes =
                          contents \o SubSeq(f.bytes, n + 1, Len(f.bytes))]]

\* ------------------------------------------------------ the host file system
\* Paths are relative to the working directory, which exists.
ParentOf(path) ==
  LET k == LastIndexOf(path, "/", Len(path))
  IN SubSeq(path, 1, k - 1)

ParentExists(dirs, path) ==
  LastIndexOf(path, "/", Len(path)) = 0 \/ ParentOf(path) \in dirs

PathsOf(files) == {f.path : f \in files}

\* mkdir: fails when the path exists or its parent directory does not.
MkdirOk(dirs, files, path) ==
  /\ path # <<>>
  /\ path \notin dirs
  /\ path \notin PathsOf(files)
  /\ ParentExists(dirs, path)

\* fopen(path, "wb"): fails when the parent directory does not exist or the
\* path names a directory.
FopenOk(dirs, path) ==
  /\ path # <<>>
  /\ path \notin dirs
  /\ ParentExists(dirs, path)

ContentOf(files, path) ==
  IF path \in PathsOf(files)
  THEN (CHOOSE f \in files : f.path = path).data
  ELSE <<>>

WriteFile(files, path, data) ==
  {f \in files : f.path # path} \cup {[path |-> path, data |-> data]}

\* trim_string(s, ' '): s from its first character that is not a space.
RECURSIVE trim_string(_)
trim_string(s) ==
  IF s # <<>> /\ Head(s) = " " THEN trim_string(Tail(s)) ELSE s

\* rtrim_string(s, ' '): the position where the trailing spaces of s start,
\* 0 (NULL) when s has none.
RECURSIVE rtrim_string(_)
rtrim_string(s) ==
  IF s = <<>> \/ s[Len(s)] # " " THEN 0
  ELSE LET r == rtrim_string(SubSeq(s, 1, Len(s) - 1))
       IN IF r = 0 THEN Len(s) ELSE r

\* The part of a host path after its last '/', the whole path without one.
Basename(path) ==
  SubSeq(path, LastIndexOf(path, "/", Len(path)) + 1, Len(path))

\* ------------------------------------------------------------------- state
VARIABLES
  image,      \* the image buffer (data)
  op,         \* the top-level operation running, with its arguments
  pc,         \* where control is
  stack,      \* the activation records of traverse_ccos_image, outermost first
  ret,        \* the value the last traverse_ccos_image invocation returned
  cb,         \* the visitor invocation in progress
  cbres,      \* what the visitor returned
  heap,       \* per directory block, the state of its child-list buffer
  log,        \* history: the visitor invocations completed so far, in order
  result,     \* the value the top-level operation returned
  find_file_data,  \* the Locator's state: target_name, target_inode
  hostdirs,   \* the directories of the host file system
  hostfiles,  \* the files of the host file system, with their contents
  df,         \* the locals of dump_dir_tree_on_file
  rp,         \* the locals of replace_file
  stdout      \* the lines printed to standard output, in order

vars == <<image, op, pc, stack, ret, cb, cbres, heap, log, result,
          find_file_data, hostdirs, hostfiles, df, rp, stdout>>

\* What the walker itself never touches.
visitorVars == <<find_file_data, hostdirs, hostfiles, df, rp, stdout>>

NoCall == [kind |-> "none", block |-> 0, dirname |-> <<>>, level |-> 0]

NoDump == [abspath |-> <<>>, blocks |-> <<>>, i |-> 0, file_size |-> 0,
           current_size |-> 0, late |-> 0,
           f |-> "NULL"]

NoReplace == [basename |-> <<>>, find |-> 1, inode |-> 0, contents |-> <<>>,
              codec |-> 1, output |-> "closed", out_path |-> <<>>]

Frame(block, dirname, level) ==
  [block |-> block, dirname |-> dirname, level |-> level, i |-> 0,
   files |-> <<>>, subdir |-> <<>>]

Top == stack[Len(stack)]
Pop == SubSeq(stack, 1, Len(stack) - 1)

\* ------------------------------------------------------ traverse_ccos_image
Mut_VerdictReturn(res) == 0

\* What traverse_ccos_image returns for a visitor verdict other than
\* RESULT_OK.
VerdictReturn(res) == IF res = RESULT_ERROR THEN -1 ELSE 0

Mut_RecursionFailed(res) == FALSE

\* Whether the recursive walk into a subdirectory failed.
RecursionFailed(res) == res = -1

Mut_NextEntry(i) == i + 2

Mut_NextEntry_Same(i) == i

\* The loop's ++i.
NextEntry(i) == i + 1

\* The path the walker passes down for a subdirectory.
SubdirPath(dirname, subdir_name) == JoinPath(dirname, subdir_name)

\* free(root_dir_files)
Free(h, b) ==
  [h EXCEPT ![b] = IF @ = "live" THEN "freed" ELSE "invalid_free"]

\* return v: the activation record is popped, the caller sees v.
Return(v) ==
  /\ stack' = Pop
  /\ ret' = v
  /\ pc' = "ret"

Mut_DecodeFailed(rc) == FALSE

\* Whether ccos_get_dir_contents failed.
DecodeFailed(rc) == rc = -1

\* Entry of an invocation: ccos_get_dir_contents on its block.
TraverseCall ==
  /\ pc = "call"
  /\ LET fr == Top
         got == ccos_get_dir_contents(image, fr.block)
     IN IF DecodeFailed(got.rc)
        THEN /\ Return(-1)
             /\ UNCHANGED heap
        ELSE /\ stack' = [stack EXCEPT ![Len(stack)].files = got.files,
                                       ![Len(stack)].i = 1]
             /\ heap' = [heap EXCEPT ![fr.block] = "live"]
             /\ pc' = "loop"
             /\ UNCHANGED ret
  /\ UNCHANGED <<image, op, cb, cbres, log, result, visitorVars>>

\* One pass through the head of the for loop, up to the visitor call.
TraverseLoop ==
  /\ pc = "loop"
  /\ LET fr == Top
         top == Len(stack)
     IN IF fr.i > Len(fr.files)
        THEN \* all entries processed
             /\ heap' = Free(heap, fr.block)
             /\ Return(0)
             /\ UNCHANGED cb
        ELSE LET c == fr.files[fr.i]
                 parsed == ccos_parse_file_name(ccos_get_file_name(image, c))
                 subdir == SubdirPath(fr.dirname, parsed.basename)
                 call == [kind |-> image.kind[c], block |-> c,
                          dirname |-> fr.dirname, level |-> fr.level]
             IN IF ccos_is_dir(image, c)
                THEN IF parsed.rc = -1
                     THEN /\ heap' = Free(heap, fr.block)
                          /\ Return(-1)
                          /\ UNCHANGED cb
                     ELSE IF op.on_dir # "NULL"
                     THEN /\ stack' = [stack EXCEPT ![top].subdir = subdir]
                          /\ cb' = call
                          /\ pc' = "visit"
                          /\ UNCHANGED <<heap, ret>>
                     ELSE /\ stack' = Append([stack EXCEPT ![top].subdir = subdir],
                                             Frame(c, subdir, fr.level + 1))
                          /\ pc' = "call"
                          /\ UNCHANGED <<heap, ret, cb>>
                ELSE IF op.on_file # "NULL"
                     THEN /\ cb' = call
                          /\ pc' = "visit"
                          /\ UNCHANGED <<stack, heap, ret>>
                     ELSE /\ stack' = [stack EXCEPT ![top].i = NextEntry(fr.i)]
                          /\ UNCHANGED <<pc, heap, ret, cb>>
  /\ UNCHANGED <<image, op, cbres, log, result, visitorVars>>

\* The branch on the visitor's verdict.
TraverseVerdict ==
  /\ pc = "verdict"
  /\ LET fr == Top
         top == Len(stack)
     IN IF cbres # RESULT_OK
        THEN /\ heap' = Free(heap, fr.block)
             /\ Return(VerdictReturn(cbres))
        ELSE IF cb.kind = "dir"
        THEN /\ stack' = Append(stack, Frame(cb.block, fr.subdir, fr.level + 1))
             /\ pc' = "call"
             /\ UNCHANGED <<heap, ret>>
        ELSE /\ stack' = [stack EXCEPT ![top].i = NextEntry(fr.i)]
             /\ pc' = "loop"
             /\ UNCHANGED <<heap, ret>>
  /\ cb' = NoCall
  /\ cbres' = 0
  /\ UNCHANGED <<image, op, log, result, visitorVars>>

\* The recursive call has returned into the invocation below it.
TraverseReturned ==
  /\ pc = "ret"
  /\ stack # <<>>
  /\ IF RecursionFailed(ret)
     THEN /\ Return(-1)
     ELSE /\ stack' = [stack EXCEPT ![Len(stack)].i = NextEntry(Top.i)]
          /\ pc' = "loop"
          /\ UNCHANGED ret
  /\ UNCHANGED <<image, op, cb, cbres, heap, log, result, visitorVars>>

Traverse == TraverseCall \/ TraverseLoop \/ TraverseVerdict \/ TraverseReturned

\* A visitor returns res to the walker.
Logged(res) ==
  Append(log, [kind |-> cb.kind, block |-> cb.block, dirname |-> cb.dirname,
               level |-> cb.level, res |-> res])

VisitorReturn(res) ==
  /\ cbres' = res
  /\ log' = Logged(res)
  /\ pc' = "verdict"

InitCommon ==
  /\ pc = "start"
  /\ stack = <<>>
  /\ ret = 0
  /\ cb = NoCall
  /\ cbres = 0
  /\ heap = [b \in Blocks |-> "unallocated"]
  /\ log = <<>>
  /\ result = 0
  /\ find_file_data = [target_name |-> <<>>, target_inode |-> 0]
  /\ hostdirs = {}
  /\ hostfiles = {}
  /\ df = NoDump
  /\ rp = NoReplace
  /\ stdout = <<>>

\* --------------------------------------------------------- a walk in general
\* traverse_ccos_image under visitors of which only the verdict is known:
\* each invocation returns any of the three verdicts.
Verdicts == {RESULT_OK, RESULT_ERROR, RESULT_BREAK}

AnyVisitor ==
  /\ pc = "visit"
  /\ op.name = "walk"
  /\ \E res \in Verdicts : VisitorReturn(res)
  /\ UNCHANGED <<image, op, stack, ret, cb, heap, result, visitorVars>>

WalkStart ==
  /\ pc = "start"
  /\ op.name = "walk"
  /\ stack' = <<Frame(superblock, <<>>, 0)>>
  /\ pc' = "call"
  /\ UNCHANGED <<image, op, ret, cb, cbres, heap, log, result, visitorVars>>

WalkDone ==
  /\ pc = "ret"
  /\ stack = <<>>
  /\ op.name = "walk"
  /\ result' = ret
  /\ pc' = "done"
  /\ UNCHANGED <<image, op, stack, ret, cb, cbres, heap, log, visitorVars>>

WalkOps ==
  {[name |-> "walk", on_file |-> "any", on_dir |-> d] : d \in {"any", "NULL"}}

InitWalk ==
  /\ image \in Images(Shapes, {<<>>}, {NamePlain}, {NamePlain}, BOOLEAN,
                      {"name", "dir"}, {PlainLayout})
  /\ op \in WalkOps
  /\ InitCommon

NextWalk == WalkStart \/ Traverse \/ AnyVisitor \/ WalkDone

SpecWalk == InitWalk /\ [][NextWalk]_vars

\* The walk as the program runs it: the walker and the visitors it calls take
\* their next step as long as there is one, so each visitor terminates.
SpecWalkFair == SpecWalk /\ WF_vars(NextWalk)

\* ------------------------------------------------------------- the Locator
Mut_find_file_on_file(block, target_name) ==
  [res |-> RESULT_BREAK, found |-> FALSE]

find_file_on_file(block, target_name) ==
  LET file_name ==
        replace_char_in_place(
          ccos_short_string_to_string(ccos_get_file_name(image, block)), "/", "_")
  IN IF target_name = file_name
     THEN [res |-> RESULT_BREAK, found |-> TRUE]
     ELSE [res |-> RESULT_OK, found |-> FALSE]

FindFileOnFile ==
  /\ pc = "visit"
  /\ op.on_file = "find_file_on_file"
  /\ LET r == find_file_on_file(cb.block, find_file_data.target_name)
     IN /\ find_file_data' =
             IF r.found
             THEN [find_file_data EXCEPT !.target_inode = cb.block]
             ELSE find_file_data
        /\ VisitorReturn(r.res)
  /\ UNCHANGED <<stdout, image, op, stack, ret, cb, heap, result,
                 hostdirs, hostfiles, df, rp>>

Mut_find_filename(walked, target_inode) == IF walked = -1 THEN -1 ELSE 0

\* What find_filename returns once its walk has returned walked.
find_filename(walked, target_inode) ==
  IF walked = -1 THEN -1
  ELSE IF target_inode = 0 THEN -1
  ELSE 0

\* ------------------------------------------------------------ replace_file
\* The image buffer as the data_size bytes fwrite sends to the output file.
RECURSIVE StoredBytes(_, _)
StoredBytes(img, b) ==
  IF b > MaxEntries + 1 THEN <<>>
  ELSE img.file[b].bytes \o StoredBytes(img, b + 1)

Serialize(img) == <<<<"head", 0, 0>>>> \o StoredBytes(img, superblock)

\* The name replace_file looks for.
TargetBasename(o) ==
  IF o.has_target_name THEN o.target_name ELSE Basename(o.filename)

\* The path replace_file writes the image to.
OutputPath(o) ==
  IF o.in_place THEN o.path ELSE o.path \o <<".", "n", "e", "w">>

Mut_Located(found) == TRUE

\* Whether replace_file goes on after find_filename returned found.
Located(found) == found = 0

Mut_Overwritten(rc) == TRUE

\* Whether replace_file goes on after ccos_replace_file returned rc.
Overwritten(rc) == rc # -1

\* Entry of replace_file, up to the walk find_filename starts.
ReplaceFile ==
  /\ pc = "start"
  /\ op.name = "replace"
  /\ rp' = [rp EXCEPT !.basename = TargetBasename(op)]
  /\ find_file_data' = [target_name |-> TargetBasename(op), target_inode |-> 0]
  /\ stack' = <<Frame(superblock, <<>>, 0)>>
  /\ pc' = "call"
  /\ UNCHANGED <<stdout, image, op, ret, cb, cbres, heap, log, result,
                 hostdirs, hostfiles, df>>

\* The walk has returned into find_filename, which returns into replace_file.
ReplaceLocated ==
  /\ pc = "ret"
  /\ stack = <<>>
  /\ op.name = "replace"
  /\ LET found == find_filename(ret, find_file_data.target_inode)
     IN IF Located(found)
        THEN /\ rp' = [rp EXCEPT !.find = found,
                                 !.inode = find_file_data.target_inode]
             /\ pc' = "read"
             /\ UNCHANGED result
        ELSE /\ rp' = [rp EXCEPT !.find = found]
             /\ result' = -1
             /\ pc' = "done"
  /\ UNCHANGED <<stdout, image, op, stack, ret, cb, cbres, heap, log,
                 find_file_data, hostdirs, hostfiles, df>>

\* The replacement contents: n bytes of the host file.
Contents(n) == [k \in 1..n |-> <<"new", 0, k>>]

\* fopen(filename, "rb") and fread of the whole file: either may fail.
ReplaceRead ==
  /\ pc = "read"
  /\ \/ /\ result' = -1
        /\ pc' = "done"
        /\ UNCHANGED rp
     \/ \E n \in 0..MaxContent :
          /\ rp' = [rp EXCEPT !.contents = Contents(n)]
          /\ pc' = "codec"
          /\ UNCHANGED result
  /\ UNCHANGED <<stdout, image, op, stack, ret, cb, cbres, heap, log,
                 find_file_data, hostdirs, hostfiles, df>>

\* ccos_replace_file on the located block.
ReplaceCodec ==
  /\ pc = "codec"
  /\ LET r == ccos_replace_file(image, rp.inode, rp.contents)
     IN IF Overwritten(r.rc)
        THEN /\ image' = r.data
             /\ rp' = [rp EXCEPT !.codec = r.rc]
             /\ pc' = "open"
             /\ UNCHANGED result
        ELSE /\ rp' = [rp EXCEPT !.codec = r.rc]
             /\ result' = -1
             /\ pc' = "done"
             /\ UNCHANGED image
  /\ UNCHANGED <<stdout, op, stack, ret, cb, cbres, heap, log,
                 find_file_data, hostdirs, hostfiles, df>>

\* fopen of the output path for writing, which truncates it; it may fail.
ReplaceOpen ==
  /\ pc = "open"
  /\ \/ /\ result' = -1
        /\ pc' = "done"
        /\ UNCHANGED <<rp, hostfiles>>
     \/ /\ FopenOk(hostdirs, OutputPath(op))
        /\ rp' = [rp EXCEPT !.output = "open", !.out_path = OutputPath(op)]
        /\ hostfiles' = WriteFile(hostfiles, OutputPath(op), <<>>)
        /\ pc' = "write"
        /\ UNCHANGED result
  /\ UNCHANGED <<stdout, image, op, stack, ret, cb, cbres, heap, log,
                 find_file_data, hostdirs, df>>

Mut_WriteResult(res, data_size) == 0

\* What replace_file returns after fwrite wrote res of data_size bytes.
WriteResult(res, data_size) == IF res # data_size THEN -1 ELSE 0

\* fwrite of the whole buffer, which may fall short, and fclose.
ReplaceWrite ==
  /\ pc = "write"
  /\ \E res \in 0..op.data_size :
       /\ hostfiles' = WriteFile(hostfiles, rp.out_path,
                                 SubSeq(Serialize(image), 1, res))
       /\ result' = WriteResult(res, op.data_size)
  /\ rp' = [rp EXCEPT !.output = "written"]
  /\ pc' = "done"
  /\ UNCHANGED <<stdout, image, op, stack, ret, cb, cbres, heap, log,
                 find_file_data, hostdirs, df>>

\* The files of an image to replace in: one block whose capacity is the
\* greatest a block may have, half of it used.
ReplaceLayout == [size |-> 1, caps |-> <<MaxCap>>, bad |-> {}]

ImagePath == <<"i">>

ReplaceOps(img) ==
  { [name |-> "replace", on_file |-> "find_file_on_file", on_dir |-> "NULL",
     path |-> ImagePath, filename |-> <<"n">>,
     has_target_name |-> TRUE, target_name |-> NameUnder \o TypeSuffix,
     in_place |-> FALSE, data_size |-> Len(Serialize(img))],
    [name |-> "replace", on_file |-> "find_file_on_file", on_dir |-> "NULL",
     path |-> ImagePath, filename |-> <<"d", "/">> \o NamePlain \o TypeSuffix,
     has_target_name |-> FALSE, target_name |-> <<>>,
     in_place |-> TRUE, data_size |-> Len(Serialize(img))] }

\* The state replace_file is called in: the image file is on the host.
ReplaceStart(imgs) ==
  /\ image \in imgs
  /\ op \in ReplaceOps(image)
  /\ pc = "start"
  /\ stack = <<>>
  /\ ret = 0
  /\ cb = NoCall
  /\ cbres = 0
  /\ heap = [b \in Blocks |-> "unallocated"]
  /\ log = <<>>
  /\ result = 0
  /\ find_file_data = [target_name |-> <<>>, target_inode |-> 0]
  /\ hostdirs = {}
  /\ hostfiles = {[path |-> ImagePath, data |-> Serialize(image)]}
  /\ df = NoDump
  /\ rp = NoReplace
  /\ stdout = <<>>

InitReplace ==
  ReplaceStart(Images(Shapes, {<<>>}, {NamePlain},
                      {NameSlash, NameUnder, NamePlain}, {FALSE},
                      {"name", "dir"}, {ReplaceLayout}))

NextReplace ==
  \/ ReplaceFile \/ Traverse \/ FindFileOnFile \/ ReplaceLocated
  \/ ReplaceRead \/ ReplaceCodec \/ ReplaceOpen \/ ReplaceWrite

SpecReplace == InitReplace /\ [][NextReplace]_vars

\* ---------------------------------------------------------- the Extractor
\* The directory dump_dir extracts into: the image's name with its padding
\* trimmed, the basename of the image path when the name is empty.
DumpDirname(img, dir_inode, path) ==
  LET floppy_name == ccos_short_string_to_string(ccos_get_file_name(img, dir_inode))
      name_trimmed == trim_string(floppy_name)
      idx == rtrim_string(name_trimmed)
      dirname == IF Len(name_trimmed) = 0 THEN Basename(path)
                 ELSE IF idx = 0 THEN name_trimmed
                 ELSE SubSeq(name_trimmed, 1, idx - 1)
  IN replace_char_in_place(dirname, "/", "_")

\* Entry of dump_dir: the root directory is created, then the walk starts.
DumpDir ==
  /\ pc = "start"
  /\ op.name = "dump"
  /\ LET dirname == DumpDirname(image, superblock, op.path)
     IN \/ /\ result' = -1
           /\ pc' = "done"
           /\ UNCHANGED <<stack, hostdirs>>
        \/ /\ MkdirOk(hostdirs, hostfiles, dirname)
           /\ hostdirs' = hostdirs \cup {dirname}
           /\ stack' = <<Frame(superblock, dirname, 0)>>
           /\ pc' = "call"
           /\ UNCHANGED result
  /\ UNCHANGED <<stdout, image, op, ret, cb, cbres, heap, log,
                 find_file_data, hostfiles, df, rp>>

\* The walk has returned into dump_dir.
DumpDirDone ==
  /\ pc = "ret"
  /\ stack = <<>>
  /\ op.name = "dump"
  /\ result' = ret
  /\ pc' = "done"
  /\ UNCHANGED <<image, op, stack, ret, cb, cbres, heap, log, visitorVars>>

\* The host directory dump_dir_tree_on_dir creates for a directory entry.
CreatedPath(dirname, subdir_name) ==
  JoinPath(dirname, replace_char_in_place(subdir_name, "/", "_"))

DumpDirTreeOnDir ==
  /\ pc = "visit"
  /\ cb.kind = "dir"
  /\ op.on_dir = "dump_dir_tree_on_dir"
  /\ LET parsed == ccos_parse_file_name(ccos_get_file_name(image, cb.block))
         subdir == CreatedPath(cb.dirname, parsed.basename)
     IN IF parsed.rc = -1
        THEN /\ VisitorReturn(-1)
             /\ UNCHANGED hostdirs
        ELSE \/ /\ VisitorReturn(RESULT_ERROR)
                /\ UNCHANGED hostdirs
             \/ /\ MkdirOk(hostdirs, hostfiles, subdir)
                /\ hostdirs' = hostdirs \cup {subdir}
                /\ VisitorReturn(RESULT_OK)
  /\ UNCHANGED <<stdout, image, op, stack, ret, cb, heap, result,
                 find_file_data, hostfiles, df, rp>>

\* The host path dump_dir_tree_on_file writes a file entry to.
FilePath(img, block, dirname) ==
  JoinPath(dirname,
           replace_char_in_place(
             ccos_short_string_to_string(ccos_get_file_name(img, block)),
             "/", "_"))

\* uint32_t subtraction.  TLC's integers are 32-bit signed, so a difference
\* that wraps, 2^32 - (b - a), is modelled by 2^31 - 1 - (b - a): like the
\* real one it exceeds every block capacity.
Sub32(a, b) == IF a >= b THEN a - b ELSE 2147483647 - (b - a)

\* uint32_t addition; no modelled sum comes near 2^32.
Add32(a, b) == a + b

Mut_MIN(A, B) == B

\* #define MIN(A, B) A < B ? A : B
MIN(A, B) == IF A < B THEN A ELSE B

Mut_MoreBlocks(i, blocks_count) == i + 1 < blocks_count

\* The loop condition i < blocks_count.
MoreBlocks(i, blocks_count) == i < blocks_count

\* dump_dir_tree_on_file up to its loop: the block chain is resolved and the
\* host file opened.
DumpFileOpen ==
  /\ pc = "visit"
  /\ cb.kind = "file"
  /\ op.on_file = "dump_dir_tree_on_file"
  /\ LET abspath == FilePath(image, cb.block, cb.dirname)
         got == ccos_get_file_blocks(image, cb.block)
         opened == [abspath |-> abspath, blocks |-> got.blocks, i |-> 0,
                    file_size |-> ccos_get_file_size(image, cb.block),
                    current_size |-> 0, late |-> 0, f |-> "open"]
     IN IF got.rc = -1
        THEN /\ df' = [NoDump EXCEPT !.abspath = abspath]
             /\ VisitorReturn(RESULT_ERROR)
             /\ UNCHANGED hostfiles
        ELSE \/ /\ df' = [NoDump EXCEPT !.abspath = abspath]
                /\ VisitorReturn(RESULT_ERROR)
                /\ UNCHANGED hostfiles
             \/ /\ FopenOk(hostdirs, abspath)
                /\ hostfiles' = WriteFile(hostfiles, abspath, <<>>)
                /\ df' = opened
                /\ pc' = "dump_block"
                /\ UNCHANGED <<cbres, log>>
  /\ UNCHANGED <<stdout, image, op, stack, ret, cb, heap, result,
                 find_file_data, hostdirs, rp>>

\* One iteration of the loop over the block chain: the block's data is
\* fetched and its part within the logical size written.
DumpFileBlock ==
  /\ pc = "dump_block"
  /\ MoreBlocks(df.i, Len(df.blocks))
  /\ LET got == ccos_get_block_data(image, cb.block, df.blocks[df.i + 1])
         data_size == Len(got.data)
         write_size == MIN(Sub32(df.file_size, df.current_size), data_size)
         late == IF df.current_size = df.file_size THEN df.late + 1 ELSE df.late
     IN IF got.rc = -1
        THEN /\ df' = [df EXCEPT !.late = late, !.f = "closed"]
             /\ VisitorReturn(RESULT_ERROR)
             /\ UNCHANGED hostfiles
        ELSE \E n \in 0..write_size :   \* what fwrite returns
               /\ hostfiles' =
                    WriteFile(hostfiles, df.abspath,
                              ContentOf(hostfiles, df.abspath)
                                \o SubSeq(got.data, 1, n))
               /\ IF n < write_size
                  THEN /\ df' = [df EXCEPT !.late = late, !.f = "closed"]
                       /\ VisitorReturn(RESULT_ERROR)
                  ELSE /\ df' = [df EXCEPT
                                   !.current_size = Add32(@, write_size),
                                   !.i = @ + 1,
                                   !.late = late]
                       /\ UNCHANGED <<pc, cbres, log>>
  /\ UNCHANGED <<stdout, image, op, stack, ret, cb, heap, result,
                 find_file_data, hostdirs, rp>>

\* The loop is over: the file is closed.
DumpFileClose ==
  /\ pc = "dump_block"
  /\ ~MoreBlocks(df.i, Len(df.blocks))
  /\ df' = [df EXCEPT !.f = "closed"]
  /\ VisitorReturn(RESULT_OK)
  /\ UNCHANGED <<stdout, image, op, stack, ret, cb, heap, result,
                 find_file_data, hostdirs, hostfiles, rp>>

DumpOp ==
  [name |-> "dump", on_file |-> "dump_dir_tree_on_file",
   on_dir |-> "dump_dir_tree_on_dir", path |-> <<"o", "/", "p">>]

\* The extraction of whole trees: directory names with and without a
\* separator, every file one block of one byte.
InitDump ==
  /\ image \in Images(Shapes, {<<>>, <<"f", "/", "g", " ">>},
                      {NameSlash, NamePlain}, {NamePlain}, {FALSE},
                      {"name", "dir"}, {PlainLayout})
  /\ op = DumpOp
  /\ InitCommon

\* One directory holding one file, every further entry a file of the root.
FileShapes ==
  {s \in Shapes :
     \A b \in Entries :
       /\ s.kind[b] = (IF b = 2 THEN "dir" ELSE "file")
       /\ s.par[b] = (IF b = 3 THEN 2 ELSE superblock)}

\* The extraction of files: every layout of the block chain.
InitDumpFile ==
  /\ image \in Images(FileShapes, {<<>>}, {NamePlain}, {NameSlash}, {FALSE},
                      {}, Layouts)
  /\ op = DumpOp
  /\ InitCommon

NextDump ==
  \/ DumpDir \/ Traverse \/ DumpDirTreeOnDir
  \/ DumpFileOpen \/ DumpFileBlock \/ DumpFileClose \/ DumpDirDone

SpecDump == InitDump /\ [][NextDump]_vars

SpecDumpFile == InitDumpFile /\ [][NextDump]_vars

\* ------------------------------------------------------------- the Lister
\* printf("%*s", width, str): str right-justified in width columns.
RECURSIVE RightJustify(_, _)
RightJustify(width, str) ==
  IF Len(str) >= width THEN str ELSE <<" ">> \o RightJustify(width - 1, str)

Mut_formatted_name_length(basename, level) == Len(basename) + level

\* strlen(basename) + 2 * level
formatted_name_length(basename, level) == Len(basename) + 2 * level

\* A line of standard output.
Line(kind, name, type, size) ==
  [kind |-> kind, name |-> name, type |-> type, size |-> size]

\* print_file_info, the visitor of files and of directories alike: one row
\* with the indented name, the type and the size of the entry.
PrintFileInfo ==
  /\ pc = "visit"
  /\ op.on_file = "print_file_info"
  /\ LET name == ccos_get_file_name(image, cb.block)
         file_size == ccos_get_file_size(image, cb.block)
         parsed == ccos_parse_file_name(name)
         formatted_name ==
           RightJustify(formatted_name_length(parsed.basename, cb.level),
                        parsed.basename)
     IN IF parsed.rc = -1
        THEN /\ VisitorReturn(RESULT_ERROR)
             /\ UNCHANGED stdout
        ELSE /\ stdout' = Append(stdout, Line("row", formatted_name,
                                              parsed.type, file_size))
             /\ VisitorReturn(RESULT_OK)
  /\ UNCHANGED <<image, op, stack, ret, cb, heap, result,
                 find_file_data, hostdirs, hostfiles, df, rp>>

\* print_image_info up to the walk: the title between two frames, a blank
\* line, the column header and a frame.
PrintImageInfo ==
  /\ pc = "start"
  /\ op.name = "list"
  /\ LET floppy_name == ccos_short_string_to_string(
                           ccos_get_file_name(image, superblock))
         name_trimmed == trim_string(floppy_name)
         basename == Basename(op.path)
         frame == Line("frame", <<>>, <<>>, Len(basename) + 2)
         title == Line("title", basename,
                       (IF Len(name_trimmed) = 0 THEN <<>> ELSE floppy_name), 0)
     IN stdout' = stdout \o <<frame, title, frame, Line("blank", <<>>, <<>>, 0),
                               Line("header", <<>>, <<>>, 0),
                               Line("frame", <<>>, <<>>, 128)>>
  /\ stack' = <<Frame(superblock, <<>>, 0)>>
  /\ pc' = "call"
  /\ UNCHANGED <<image, op, ret, cb, cbres, heap, log, result,
                 find_file_data, hostdirs, hostfiles, df, rp>>

\* The walk has returned into print_image_info.
PrintImageInfoDone ==
  /\ pc = "ret"
  /\ stack = <<>>
  /\ op.name = "list"
  /\ result' = ret
  /\ pc' = "done"
  /\ UNCHANGED <<image, op, stack, ret, cb, cbres, heap, log, visitorVars>>

ListOp ==
  [name |-> "list", on_file |-> "print_file_info",
   on_dir |-> "print_file_info", path |-> <<"o", "/", "p">>]

\* The listing of whole trees, with and without a description.
InitList ==
  /\ image \in Images(Shapes, {<<>>, <<"f", " ">>}, {NamePlain},
                      {NamePlain}, BOOLEAN, {"name", "dir"}, {PlainLayout})
  /\ op = ListOp
  /\ InitCommon

NextList == PrintImageInfo \/ Traverse \/ PrintFileInfo \/ PrintImageInfoDone

SpecList == InitList /\ [][NextList]_vars

\* ------------------------------------------------- properties of the walk
RECURSIVE PreorderOf(_, _)
\* The entries below a child list in depth-first pre-order: each child in
\* list order, a directory followed at once by the entries below it.
PreorderOf(img, list) ==
  IF list = <<>> THEN <<>>
  ELSE <<Head(list)>>
       \o (IF img.kind[Head(list)] = "dir"
           THEN PreorderOf(img, img.kids[Head(list)]) ELSE <<>>)
       \o PreorderOf(img, Tail(list))

Preorder(img) == PreorderOf(img, img.kids[superblock])

IsPrefix(a, b) == Len(a) <= Len(b) /\ a = SubSeq(b, 1, Len(a))

LogBlocks == [k \in 1..Len(log) |-> log[k].block]

\* The parent directory of entry b in the image.
ParentIn(img, b) ==
  CHOOSE d \in Blocks :
    img.kind[d] = "dir" /\ \E k \in 1..Len(img.kids[d]) : img.kids[d][k] = b

\* Every directory below the root has a well-formed name and every
\* directory's child list decodes.
Decodable(img) ==
  /\ img.baddirs = {}
  /\ \A b \in Entries :
       img.kind[b] = "dir" => ccos_parse_file_name(img.name[b]).rc = 0

BothVisitors == op.on_file # "NULL" /\ op.on_dir # "NULL"

Returned(res) == \E k \in 1..Len(log) : log[k].res = res

AllContinue == \A k \in 1..Len(log) : log[k].res = RESULT_OK

\* C1: once a visitor at any depth has returned RESULT_BREAK, no visitor is
\* invoked on any further entry, and the top-level walk returns 0.
CE_C1 ==
  /\ \A k \in 1..Len(log) : log[k].res = RESULT_BREAK => k = Len(log)
  /\ (pc = "done" /\ Returned(RESULT_BREAK)) => result = 0

\* C3: once a visitor at any depth has returned RESULT_ERROR, no visitor is
\* invoked on any further entry, every enclosing invocation of the walk
\* returns -1 in turn, and the top-level walk returns -1.
Thm_C3 ==
  Returned(RESULT_ERROR) =>
    /\ log[Len(log)].res = RESULT_ERROR
    /\ pc \in {"verdict", "ret", "done"}
    /\ pc = "verdict" => cbres = RESULT_ERROR
    /\ pc = "ret" => ret = -1
    /\ pc = "done" => result = -1

\* The abort verdict came from two directory levels down and the walk has
\* returned.
Wit_C3 ==
  /\ pc = "done"
  /\ result = -1
  /\ Returned(RESULT_ERROR)
  /\ log[Len(log)].level = 2

\* C4 as stated: on every tree image, under visitors that always continue,
\* the finished walk has invoked a visitor on every entry exactly once, in
\* pre-order.
CE_C4 ==
  (BothVisitors /\ AllContinue /\ pc = "done") => LogBlocks = Preorder(image)

\* C4, amended: on every tree image in which every directory's name and child
\* list decode, under visitors that always continue, the visitors invoked so
\* far are the entries of the tree in depth-first pre-order of the decoded
\* child lists (so a directory's on_dir precedes every callback on its
\* descendants), on_dir for directories and on_file for files, none twice;
\* when the walk returns it returns 0 and every entry has been visited.
Thm_C4 ==
  (BothVisitors /\ AllContinue /\ Decodable(image)) =>
    /\ IsPrefix(LogBlocks, Preorder(image))
    /\ \A k \in 1..Len(log) :
         /\ log[k].kind = image.kind[log[k].block]
         /\ \A m \in 1..Len(log) : log[m].block = log[k].block => m = k
         /\ ParentIn(image, log[k].block) # superblock =>
              \E m \in 1..(k - 1) : log[m].block = ParentIn(image, log[k].block)
    /\ pc = "done" =>
         /\ result = 0
         /\ {log[k].block : k \in 1..Len(log)} = Entries

\* A finished walk over a decodable image with a nested directory, every
\* verdict continue.
Wit_C4 ==
  /\ pc = "done"
  /\ BothVisitors /\ AllContinue /\ Decodable(image)
  /\ Len(log) = MaxEntries
  /\ \E k \in 1..Len(log) : log[k].level >= 1

\* ---------------------------------------------- properties of replace_file
\* The name of entry b as the Locator compares it: separators substituted.
SubstName(img, b) ==
  replace_char_in_place(ccos_short_string_to_string(img.name[b]), "/", "_")

FilesOf(img) == {b \in Entries : img.kind[b] = "file"}

\* The files of the image whose substituted name is the target.
Matches == {b \in FilesOf(image) : SubstName(image, b) = TargetBasename(op)}

\* The first of them in depth-first order.
FirstMatch ==
  LET order == Preorder(image)
      k == CHOOSE n \in 1..Len(order) :
             /\ order[n] \in Matches
             /\ \A m \in 1..(n - 1) : order[m] \notin Matches
  IN order[k]

\* find_filename has returned into replace_file.
FindReturned == rp.find # 1

\* C2, on the images whose directories all decode: when some file's
\* substituted name is the target, find_file_on_file is not invoked again
\* after the match, and find_filename succeeds with the block of the first
\* match in depth-first order.
CE_C2 ==
  (Decodable(image) /\ Matches # {}) =>
    /\ \A k \in 1..Len(log) : log[k].res = RESULT_BREAK => k = Len(log)
    /\ FindReturned => rp.find = 0 /\ rp.inode = FirstMatch

\* C7: the output file is opened only after the Locator and then the codec
\* have succeeded, the codec is attempted only after the Locator has
\* succeeded, and when either fails replace_file returns -1 with the host
\* files as they were.
Thm_C7 ==
  /\ rp.output # "closed" => rp.find = 0 /\ rp.codec = 0
  /\ rp.codec # 1 => rp.find = 0
  /\ (rp.find = -1 \/ rp.codec = -1) =>
       /\ pc = "done"
       /\ result = -1
       /\ rp.output = "closed"
       /\ hostfiles = {[path |-> ImagePath, data |-> Serialize(image)]}

\* The Locator succeeded, the codec rejected the content as too large, and
\* replace_file has returned.
Wit_C7 ==
  /\ pc = "done"
  /\ rp.find = 0
  /\ rp.codec = -1
  /\ Len(rp.contents) > Len(image.file[rp.inode].bytes)

\* C8 as stated: on every tree image in which no file's substituted name is
\* the target, find_filename returns an error, and only after
\* find_file_on_file has been invoked on every file.
CE_C8 ==
  (Matches = {} /\ FindReturned) =>
    /\ rp.find = -1
    /\ {log[k].block : k \in 1..Len(log)} = FilesOf(image)

\* C8, amended: on every tree image in which every directory's name and child
\* list decode and no file's substituted name is the target, find_filename
\* returns an error, and by then find_file_on_file has been invoked exactly
\* once on every file of the tree, nested ones included, and on no directory.
Thm_C8 ==
  (Decodable(image) /\ Matches = {} /\ FindReturned) =>
    /\ rp.find = -1
    /\ find_file_data.target_inode = 0
    /\ {log[k].block : k \in 1..Len(log)} = FilesOf(image)
    /\ \A k, m \in 1..Len(log) : log[k].block = log[m].block => k = m
    /\ op.on_dir = "NULL"

\* Nothing matched in a decodable image that has a file two directory
\* levels down.
Wit_C8 ==
  /\ Decodable(image) /\ Matches = {} /\ FindReturned
  /\ \E k \in 1..Len(log) : log[k].level = 2

\* C9: when find_filename succeeds the identifier it stores is nonzero and is
\* the block of a file whose substituted name is the target; when the walk
\* ends with the identifier still 0, find_filename returns an error.
Thm_C9 ==
  /\ rp.find = 0 =>
       /\ rp.inode # 0
       /\ rp.inode \in FilesOf(image)
       /\ rp.inode \in Matches
  /\ (FindReturned /\ find_file_data.target_inode = 0) => rp.find = -1

\* find_filename succeeded on a nested file whose raw name holds a separator,
\* in an image with a directory as well.
Wit_C9 ==
  /\ rp.find = 0
  /\ IndexOf(image.name[rp.inode], "/", 1) # 0
  /\ ParentIn(image, rp.inode) # superblock

\* --------------------------------------------- properties of the Extractor
RECURSIVE ChainPayload(_, _, _)
\* The payloads of data blocks j.. of file b, one after the other.
ChainPayload(img, b, j) ==
  IF j > Len(img.file[b].caps) THEN <<>>
  ELSE ccos_get_block_data(img, b, j).data \o ChainPayload(img, b, j + 1)

\* dump_dir_tree_on_file has opened the host file: it is in its loop, or has
\* just returned from it.
InFile ==
  /\ op.name = "dump"
  /\ cb.kind = "file"
  /\ pc \in {"dump_block", "verdict"}
  /\ df.f # "NULL"

Written == ContentOf(hostfiles, df.abspath)

\* C5: while a file is extracted the running count never exceeds the logical
\* size S, so file_size - current_size never wraps, and the host file holds
\* current_size bytes; when the visitor returns RESULT_OK for a file whose
\* chain capacities sum to at least S, the host file holds exactly S bytes,
\* the payloads of the chain in order cut at S.
Thm_C5 ==
  InFile =>
    /\ df.current_size <= df.file_size
    /\ Len(Written) <= df.file_size
    /\ (pc = "verdict" /\ cbres = RESULT_OK
          /\ Sum(image.file[cb.block].caps) >= df.file_size) =>
         /\ df.current_size = df.file_size
         /\ Len(Written) = df.file_size
         /\ Written = SubSeq(ChainPayload(image, cb.block, 1), 1, df.file_size)

\* A file of two blocks whose last block is cut short has been extracted.
Wit_C5 ==
  /\ InFile /\ pc = "verdict" /\ cbres = RESULT_OK
  /\ Len(df.blocks) = 2
  /\ df.file_size > image.file[cb.block].caps[1]
  /\ df.file_size < Sum(image.file[cb.block].caps)
  /\ Len(Written) = df.file_size

\* C6 as stated: once the bytes written have reached the logical size of a
\* file that has any, ccos_get_block_data is called on no further block.
CE_C6 == (op.name = "dump" /\ df.file_size > 0) => df.late = 0

\* C6, amended: once the bytes written have reached the file's logical size,
\* no further byte is written, but every remaining block of the chain is
\* still read: the visitor returns RESULT_OK only after the whole chain, and
\* only when every block of it decodes, so a decode failure in a trailing
\* slack block makes the extraction of the file fail.
Thm_C6 ==
  InFile =>
    /\ df.late > 0 =>
         /\ df.current_size = df.file_size
         /\ Len(Written) = df.file_size
    /\ (pc = "verdict" /\ cbres = RESULT_OK) => df.i = Len(df.blocks)
    /\ (pc = "verdict" /\ cbres = RESULT_OK) => image.file[cb.block].bad = {}

\* Every byte of the file was written and the visitor still failed, on a
\* trailing block that does not decode.
Wit_C6 ==
  /\ InFile /\ pc = "verdict" /\ cbres = RESULT_ERROR
  /\ df.file_size > 0
  /\ df.late = 1
  /\ Written = SubSeq(ChainPayload(image, cb.block, 1), 1, df.file_size)
  /\ df.i + 1 \in image.file[cb.block].bad

\* C10: during extraction the walker hands every visitor, and walks every
\* directory under, a path prefix that names a host directory already
\* created.
CE_C10 ==
  op.name = "dump" =>
    /\ pc = "visit" => cb.dirname \in hostdirs
    /\ \A k \in 1..Len(stack) : stack[k].dirname \in hostdirs

\* A visitor returned because one of its steps failed: its result is neither
\* continue nor stop-early.
VisitorFailed == \E k \in 1..Len(log) : log[k].res \notin {RESULT_OK, RESULT_BREAK}

\* C11: in a listing, an extraction and a replacement every result a visitor
\* returns is a value of traverse_callback_result_t (the walker decodes a
\* directory's name before it calls the on-directory visitor, so the
\* Extractor's own name decode never fails and its return of -1 is never
\* taken), a failed visitor is the last one invoked, and the walk that held
\* it returns -1 to its caller, never 0.
Thm_C11 ==
  /\ \A k \in 1..Len(log) : log[k].res \in Verdicts
  /\ VisitorFailed =>
       /\ log[Len(log)].res = RESULT_ERROR
       /\ pc = "ret" => ret = -1
       /\ pc = "done" => result = -1

\* The on-directory visitor failed to create a directory one level down, and
\* the walk has returned to dump_dir.
Wit_C11 ==
  /\ op.name = "dump"
  /\ pc = "done"
  /\ result = -1
  /\ VisitorFailed
  /\ log[Len(log)].kind = "dir"
  /\ log[Len(log)].level = 1

\* C12: when ccos_get_dir_contents fails on the directory an invocation was
\* called for, at whatever depth, the invocation returns -1 at once without
\* invoking a visitor; and from a returned -1 on, every enclosing invocation
\* returns -1 in turn, no invocation is entered again (the decode is not
\* retried), no visitor is invoked, and the top-level walk returns -1.
Thm_C12 ==
  [][ /\ (pc = "call" /\ Top.block \in image.baddirs) =>
           /\ pc' = "ret"
           /\ ret' = -1
           /\ log' = log
      /\ (pc = "ret" /\ ret = -1) =>
           /\ log' = log
           /\ pc' \in {"ret", "done"}
           /\ pc' = "ret" => ret' = -1
           /\ pc' = "done" => result' = -1 ]_vars

\* The child list of a directory two levels below the root did not decode,
\* every name decodes and every visitor said continue: the walk has returned
\* -1.
Wit_C12 ==
  /\ op.name = "walk"
  /\ pc = "done"
  /\ result = -1
  /\ AllContinue
  /\ \A b \in Entries :
       image.kind[b] = "dir" => ccos_parse_file_name(image.name[b]).rc = 0
  /\ \E b \in Entries :
       /\ image.baddirs = {b}
       /\ ParentIn(image, b) # superblock

\* ------------------------------------------------ properties of the listing
RECURSIVE DepthIn(_, _)
\* The nesting level of the directory that holds entry b: 0 for the root.
DepthIn(img, b) ==
  IF ParentIn(img, b) = superblock THEN 0
  ELSE 1 + DepthIn(img, ParentIn(img, b))

Spaces(n) == [k \in 1..n |-> " "]

\* The rows printed so far, the title and header lines left out.
Rows == SelectSeq(stdout, LAMBDA l : l.kind = "row")

\* The row of entry b: its basename behind two spaces per nesting level.
RowOf(img, b) ==
  LET parsed == ccos_parse_file_name(img.name[b])
  IN Line("row", Spaces(2 * DepthIn(img, b)) \o parsed.basename,
          parsed.type, img.file[b].size)

\* One row per entry of the tree, in pre-order.
RowsOf(img) == [k \in 1..Len(Preorder(img)) |-> RowOf(img, Preorder(img)[k])]

NamesDecode(img) ==
  \A b \in Entries : ccos_parse_file_name(img.name[b]).rc = 0

\* C13 as stated: the finished listing of a tree image whose names all decode
\* holds exactly one row per entry, each indented by two spaces per nesting
\* level of its directory.
CE_C13 ==
  (op.name = "list" /\ pc = "done" /\ NamesDecode(image)) =>
    Rows = RowsOf(image)

\* C13, amended: when every name and every directory's child list decode,
\* the rows printed so far are the rows of the tree's entries in pre-order,
\* each indented by two spaces per nesting level of its directory, and the
\* finished listing holds exactly one row per entry and returns 0.
Thm_C13 ==
  (op.name = "list" /\ NamesDecode(image) /\ image.baddirs = {}) =>
    /\ IsPrefix(Rows, RowsOf(image))
    /\ pc = "done" => (Rows = RowsOf(image) /\ result = 0)

\* A finished listing of a tree with an entry two directories down.
Wit_C13 ==
  /\ op.name = "list"
  /\ pc = "done"
  /\ NamesDecode(image) /\ image.baddirs = {}
  /\ Len(Rows) = MaxEntries
  /\ \E b \in Entries : DepthIn(image, b) = 2

\* ------------------------------------------- properties of the image output
\* The bytes fwrite put into the output file.
OutputBytes ==
  IF rp.output = "written" THEN ContentOf(hostfiles, rp.out_path) ELSE <<>>

\* C14: the image serializes to data_size bytes whatever the length of the
\* replacement content; and once the target was located and the codec has
\* overwritten it, replace_file returns 0 exactly when fwrite put data_size
\* bytes, the whole image, into the output file, and -1 otherwise.
Thm_C14 ==
  op.name = "replace" =>
    /\ Len(Serialize(image)) = op.data_size
    /\ (pc = "done" /\ rp.find = 0 /\ rp.codec = 0) =>
         /\ result \in {0, -1}
         /\ result = 0 <=> Len(OutputBytes) = op.data_size
         /\ result = 0 => OutputBytes = Serialize(image)

\* A replacement longer than the file it replaces went into the image, and
\* the write of the image fell short.
Wit_C14 ==
  /\ op.name = "replace"
  /\ pc = "done" /\ rp.find = 0 /\ rp.codec = 0
  /\ rp.output = "written"
  /\ Len(rp.contents) = MaxCap
  /\ Len(OutputBytes) > 0
  /\ Len(OutputBytes) < op.data_size
  /\ result = -1

\* ---------------------------------------------------------- every operation
\* The images every operation is run on: all entries named alike, every file
\* one block of one byte.
PlainImages ==
  Images(Shapes, {<<>>}, {NamePlain}, {NamePlain}, {FALSE}, {"name", "dir"},
         {PlainLayout})

\* Listing, extraction and replacement of the same images.
InitAll ==
  \/ image \in PlainImages /\ op = ListOp /\ InitCommon
  \/ image \in PlainImages /\ op = DumpOp /\ InitCommon
  \/ ReplaceStart(PlainImages)

NextAll ==
  \/ PrintImageInfo \/ PrintFileInfo \/ PrintImageInfoDone
  \/ DumpDir \/ DumpDirTreeOnDir \/ DumpFileOpen \/ DumpFileBlock
  \/ DumpFileClose \/ DumpDirDone
  \/ ReplaceFile \/ FindFileOnFile \/ ReplaceLocated \/ ReplaceRead
  \/ ReplaceCodec \/ ReplaceOpen \/ ReplaceWrite
  \/ Traverse

SpecAll == InitAll /\ [][NextAll]_vars

\* C15: no step of a listing, of an extraction or of the locating walk
\* changes the image buffer; the one step that does is the codec overwrite of
\* replace_file, taken when no invocation of the walk is left on the stack
\* and find_filename has returned 0.
Thm_C15 ==
  [][ image' # image =>
        /\ op.name = "replace"
        /\ pc = "codec" /\ pc' = "open"
        /\ stack = <<>>
        /\ rp.find = 0
        /\ image' = ccos_replace_file(image, rp.inode, rp.contents).data ]_vars

\* The codec has overwritten the located file: the image holds new content.
Wit_C15 ==
  /\ op.name = "replace"
  /\ pc = "open"
  /\ rp.contents # <<>>
  /\ SubSeq(image.file[rp.inode].bytes, 1, Len(rp.contents)) = rp.contents

\* ----------------------------------------------------- termination of a walk
\* C16: on every tree image, whatever verdicts the visitors give, the walk
\* returns to its caller; and every invocation on the stack runs one level
\* below its caller, with no test of the level anywhere, so the walk goes as
\* deep as the tree does.
Thm_C16 ==
  /\ <>(pc = "done")
  /\ [](\A k \in 1..Len(stack) : stack[k].level = k - 1)

\* The walk has returned from a tree whose directories nest as deep as its
\* number of entries allows: an entry of the innermost one was visited.
Wit_C16 ==
  /\ op.name = "walk"
  /\ pc = "done"
  /\ \E k \in 1..Len(log) : log[k].level = MaxEntries - 1

\* ------------------------------------------------ the child-list buffers
\* An invocation of traverse_ccos_image for directory b is on the stack.
Running(b) == \E k \in 1..Len(stack) : stack[k].block = b

\* C17: the child-list buffer an invocation obtained is freed exactly once
\* before the invocation returns: no buffer is freed twice, and the buffer of
\* an invocation that has returned is freed.
CE_C17 ==
  \A b \in Blocks :
    /\ heap[b] # "invalid_free"
    /\ (heap[b] # "unallocated" /\ ~Running(b)) => heap[b] = "freed"

====
